---- MODULE Spec2Model ----
(***************************************************************************)
(* Model of the similarity detection engine of smart-files:                *)
(*   SimilarityServiceSimple   (src/file_save/similarity_service_simple.py)*)
(*   SimilarityServiceLite     (src/file_save/similarity_service_lite.py)  *)
(*   DocumentSimilarityService (src/file_save/similarity_service.py)       *)
(* One behaviour follows one deployment: the service class it              *)
(* instantiates (svc), the index in memory, the artifacts on disk and the  *)
(* Django cache with the age of its entries.  The FileSave rows a rebuild  *)
(* reads are an input of that call.                                        *)
(*                                                                         *)
(* Numbers: Python floats are modelled as exact rationals <<n, d>> in      *)
(* lowest terms with d > 0.  Documents are texts made of lower-case ASCII  *)
(* words separated by one space; a text is the sequence of its words.      *)
(***************************************************************************)
EXTENDS Integers, Sequences, FiniteSets, TLC

\* ------------------------------------------------------------------------
\* Bounds of the model
\* ------------------------------------------------------------------------
MaxRecords == 2
MaxAge == 1800
MaxFaults == 1
MaxWords == 3
TickSeconds == 900
MaxCalls == 2

\* ------------------------------------------------------------------------
\* Exact rational arithmetic (stands for Python float arithmetic)
\* ------------------------------------------------------------------------
Abs(x) == IF x < 0 THEN -x ELSE x

RECURSIVE GCD(_, _)
GCD(a, b) == IF b = 0 THEN a ELSE GCD(b, a % b)

Rat(n, d) ==
    LET g == GCD(Abs(n), Abs(d))
        s == IF d < 0 THEN -1 ELSE 1
    IN  <<(s * n) \div g, (s * d) \div g>>

RInt(n) == <<n, 1>>
RZero == <<0, 1>>
ROne == <<1, 1>>
\* sums over the least common denominator and products reduced crosswise keep
\* the intermediate integers small
RAdd(a, b) ==
    LET l == (a[2] \div GCD(a[2], b[2])) * b[2]
    IN  Rat(a[1] * (l \div a[2]) + b[1] * (l \div b[2]), l)
RNeg(a) == <<-a[1], a[2]>>
RSub(a, b) == RAdd(a, RNeg(b))
RMul(a, b) ==
    LET g1 == GCD(Abs(a[1]), b[2])
        g2 == GCD(Abs(b[1]), a[2])
    IN  <<(a[1] \div g1) * (b[1] \div g2), (a[2] \div g2) * (b[2] \div g1)>>
RInv(b) == IF b[1] < 0 THEN <<-b[2], -b[1]>> ELSE <<b[2], b[1]>>
RDiv(a, b) == RMul(a, RInv(b))
RAbs(a) == <<Abs(a[1]), a[2]>>
\* a < b, by comparing the continued fractions of a and b
RECURSIVE RLess(_, _)
RLess(a, b) ==
    IF a[1] \div a[2] # b[1] \div b[2] THEN a[1] \div a[2] < b[1] \div b[2]
    ELSE IF a[1] % a[2] = 0 THEN b[1] % b[2] > 0
    ELSE IF b[1] % b[2] = 0 THEN FALSE
    ELSE RLess(<<b[2], b[1] % b[2]>>, <<a[2], a[1] % a[2]>>)
RLeq(a, b) == ~RLess(b, a)
RMax(a, b) == IF RLeq(a, b) THEN b ELSE a

\* f[lo] + ... + f[hi], summed pairwise
RECURSIVE RSumRange(_, _, _)
RSumRange(f, lo, hi) ==
    IF hi < lo THEN RZero
    ELSE IF lo = hi THEN f[lo]
    ELSE RAdd(RSumRange(f, lo, (lo + hi) \div 2), RSumRange(f, (lo + hi) \div 2 + 1, hi))

RECURSIVE ISumRange(_, _, _)
ISumRange(f, lo, hi) ==
    IF hi < lo THEN 0
    ELSE IF lo = hi THEN f[lo]
    ELSE ISumRange(f, lo, (lo + hi) \div 2) + ISumRange(f, (lo + hi) \div 2 + 1, hi)

\* ------------------------------------------------------------------------
\* Texts
\* ------------------------------------------------------------------------
\* the words are "similarity" and "thresholds", of ten letters each
WordLen(w) == 10

EmptyText == <<>>
TextA == <<"similarity", "thresholds">>
TextB == <<"similarity", "similarity", "thresholds">>
Texts == {EmptyText, TextA, TextB}

\* the contents that are added and stored, and the contents that are queried
Contents == {TextA, TextB}
Queries == {TextA}

\* len(content): the words joined by single spaces
LetterCount(t) == ISumRange([i \in 1..Len(t) |-> WordLen(t[i])], 1, Len(t))

CharCount(t) == IF Len(t) = 0 THEN 0 ELSE LetterCount(t) + (Len(t) - 1)

Count(ws, w) == Cardinality({i \in 1..Len(ws) : ws[i] = w})
WordSet(ws) == {ws[i] : i \in 1..Len(ws)}
FirstPos(ws, w) == CHOOSE i \in 1..Len(ws) : ws[i] = w /\ \A j \in 1..(i - 1) : ws[j] # w

\* sorted(items, key=value, reverse=True)[:n] / Counter.most_common(n): the n
\* entries of largest value, entries of equal value in first-occurrence order
TopN(m, ws, n) ==
    LET beats(u, w) == \/ RLess(m[w], m[u])
                       \/ m[w] = m[u] /\ FirstPos(ws, u) < FirstPos(ws, w)
        keep == {w \in DOMAIN m : Cardinality({u \in DOMAIN m : beats(u, w)}) < n}
    IN  [w \in keep |-> m[w]]

\* ------------------------------------------------------------------------
\* Feature extractors
\* ------------------------------------------------------------------------
\* Booleans are kept as the numbers Python compares them as (False = 0,
\* True = 1): isinstance(True, (int, float)) holds, so both scorers take
\* the numeric branch for them.
NoFeatures == [x \in {} |-> RZero]

\* SimilarityServiceSimple._extract_text_features on a text of ASCII words
ExtractSimple(t) ==
    LET words == SelectSeq(t, LAMBDA w : WordLen(w) > 1)
        n == Len(words)
        ws == WordSet(words)
        lens == LetterCount(words)
        chars == CharCount(t)
    IN  [ word_count |-> RInt(n),
          char_count |-> RInt(chars),
          unique_words |-> RInt(Cardinality(ws)),
          avg_word_length |-> IF n > 0 THEN Rat(lens, n) ELSE RZero,
          common_words |-> TopN([w \in ws |-> RInt(Count(words, w))], words, 20),
          word_frequency |-> [w \in ws |-> Rat(Count(words, w), n)],
          vocabulary_richness |-> IF n > 0 THEN Rat(Cardinality(ws), n) ELSE RZero,
          sentence_count |-> ROne,
          paragraph_count |-> IF Len(t) > 0 THEN ROne ELSE RZero,
          has_numbers |-> RZero,
          has_urls |-> RZero,
          has_emails |-> RZero,
          has_phone |-> RZero,
          chinese_ratio |-> RZero,
          english_ratio |-> IF chars = 0 THEN RZero ELSE Rat(LetterCount(t), chars),
          digit_ratio |-> RZero,
          semantic_keywords |->
              TopN([w \in ws |-> RAdd(Rat(WordLen(w), 10),
                                      RMul(Rat(Count(words, w), n), RInt(100)))],
                   words, 10),
          topic_words |-> TopN([w \in ws |-> Rat(Count(words, w), n)], words, 15),
          has_time |-> RZero,
          has_date |-> RZero,
          sentiment_score |-> RZero ]

\* SimilarityServiceLite._extract_text_features (no length filter on words)
ExtractLite(t) ==
    LET n == Len(t)
        ws == WordSet(t)
    IN  [ word_count |-> RInt(n),
          char_count |-> RInt(CharCount(t)),
          unique_words |-> RInt(Cardinality(ws)),
          avg_word_length |-> IF n > 0 THEN Rat(LetterCount(t), n) ELSE RZero,
          common_words |-> TopN([w \in ws |-> RInt(Count(t, w))], t, 10),
          has_numbers |-> RZero,
          has_urls |-> RZero,
          has_emails |-> RZero ]

\* ------------------------------------------------------------------------
\* Scorers
\* ------------------------------------------------------------------------
\* the closeness of two numbers as both dict scorers compute it per key
ValueCloseness(v1, v2) ==
    IF v1 = RZero /\ v2 = RZero THEN ROne
    ELSE LET max_val == RMax(RAbs(v1), RAbs(v2))
         IN  IF RLess(RZero, max_val)
             THEN RSub(ROne, RDiv(RAbs(RSub(v1, v2)), max_val))
             ELSE RZero

\* The key a Python set iteration yields last.  Set order follows the
\* per-process string hash seed; ord is this process's order of the words.
LastKey(S, ord) ==
    CHOOSE w \in S : \A u \in S : (CHOOSE i \in 1..Len(ord) : ord[i] = u)
                                   <= (CHOOSE i \in 1..Len(ord) : ord[i] = w)

\* the for loop of _calculate_dict_similarity over the intersection: the sum
\* of the closeness of the two values of every common key
ValueLoop(dict1, dict2, ord) ==
    RSumRange([i \in 1..Len(ord) |->
                 IF ord[i] \in DOMAIN dict1 /\ ord[i] \in DOMAIN dict2
                 THEN ValueCloseness(dict1[ord[i]], dict2[ord[i]])
                 ELSE RZero],
              1, Len(ord))

\* SimilarityServiceSimple._calculate_dict_similarity.  The else clause at
\* line 287 belongs to the for loop: it runs once after the loop, reading
\* val1 and val2 of the last key, and raises UnboundLocalError when the
\* intersection is empty.  Result: [raised, value].
CalculateDictSimilarity(dict1, dict2, ord) ==
    LET keys1 == DOMAIN dict1
        keys2 == DOMAIN dict2
        intersection == keys1 \cap keys2
        union == keys1 \cup keys2
    IN  IF keys1 = {} /\ keys2 = {} THEN [raised |-> FALSE, value |-> ROne]
        ELSE IF keys1 = {} \/ keys2 = {} THEN [raised |-> FALSE, value |-> RZero]
        ELSE IF intersection = {} THEN [raised |-> TRUE, value |-> RZero]
        ELSE
          LET jaccard == Rat(Cardinality(intersection), Cardinality(union))
              last == LastKey(intersection, ord)
              after == RAdd(ValueLoop(dict1, dict2, ord),
                            IF dict1[last] = dict2[last] THEN ROne ELSE RZero)
              value_similarity == RDiv(after, RInt(Cardinality(intersection)))
          IN  [raised |-> FALSE,
               value |-> RDiv(RAdd(jaccard, value_similarity), RInt(2))]

\* SimilarityServiceSimple._calculate_numeric_similarity
CalculateNumericSimilarity(val1, val2) ==
    IF val1 = val2 THEN ROne
    ELSE LET max_val == RMax(RAbs(val1), RAbs(val2))
         IN  IF max_val = RZero THEN ROne
             ELSE RMax(RZero, RSub(ROne, RDiv(RAbs(RSub(val1, val2)), max_val)))

DictFeatures == {"common_words", "word_frequency", "semantic_keywords", "topic_words"}

\* SimilarityServiceSimple._calculate_feature_similarity: an exception of
\* the dict scorer is caught and scored 0.0
CalculateFeatureSimilarity(val1, val2, feature, ord) ==
    IF feature \in DictFeatures
    THEN LET r == CalculateDictSimilarity(val1, val2, ord)
         IN  IF r.raised THEN RZero ELSE r.value
    ELSE CalculateNumericSimilarity(val1, val2)

\* the weight table of _calculate_enhanced_similarity, in hundredths, and the
\* order in which the loop over weights.items() visits it
EnhancedFeatures ==
    << "word_count", "char_count", "unique_words", "avg_word_length", "common_words",
       "word_frequency", "vocabulary_richness", "sentence_count", "paragraph_count",
       "has_numbers", "has_urls", "has_emails", "has_phone", "chinese_ratio",
       "english_ratio", "digit_ratio", "sentiment_score", "has_time", "has_date",
       "semantic_keywords", "topic_words" >>

EnhancedWeights ==
    [ word_count |-> 8, char_count |-> 5, unique_words |-> 8, avg_word_length |-> 5,
      common_words |-> 30, word_frequency |-> 20, vocabulary_richness |-> 8,
      sentence_count |-> 3, paragraph_count |-> 3, has_numbers |-> 2, has_urls |-> 2,
      has_emails |-> 2, has_phone |-> 2, chinese_ratio |-> 5, english_ratio |-> 5,
      digit_ratio |-> 3, sentiment_score |-> 8, has_time |-> 2, has_date |-> 2,
      semantic_keywords |-> 15, topic_words |-> 10 ]

\* SimilarityServiceSimple._calculate_enhanced_similarity; the sums are in
\* hundredths
CalculateEnhancedSimilarity(features1, features2, ord) ==
    LET n == Len(EnhancedFeatures)
        both == {f \in DOMAIN EnhancedWeights :
                    f \in DOMAIN features1 /\ f \in DOMAIN features2}
        total_similarity ==
            RSumRange([i \in 1..n |->
                         IF EnhancedFeatures[i] \in both
                         THEN RMul(CalculateFeatureSimilarity(
                                       features1[EnhancedFeatures[i]],
                                       features2[EnhancedFeatures[i]],
                                       EnhancedFeatures[i], ord),
                                   RInt(EnhancedWeights[EnhancedFeatures[i]]))
                         ELSE RZero],
                      1, n)
        total_weight ==
            ISumRange([i \in 1..n |->
                         IF EnhancedFeatures[i] \in both
                         THEN EnhancedWeights[EnhancedFeatures[i]] ELSE 0],
                      1, n)
    IN  IF total_weight > 0 THEN RDiv(total_similarity, RInt(total_weight)) ELSE RZero

\* the weight table of _calculate_basic_similarity, in hundredths, and the
\* order in which the loop visits it
BasicFeatures ==
    << "word_count", "char_count", "unique_words", "avg_word_length", "common_words",
       "has_numbers", "has_urls" >>

BasicWeights ==
    [ word_count |-> 20, char_count |-> 10, unique_words |-> 20, avg_word_length |-> 10,
      common_words |-> 30, has_numbers |-> 5, has_urls |-> 5 ]

\* the similarity of one feature in _calculate_basic_similarity
BasicFeatureSimilarity(val1, val2, feature) ==
    IF feature = "common_words"
    THEN IF DOMAIN val1 # {} \/ DOMAIN val2 # {}
         THEN Rat(Cardinality(DOMAIN val1 \cap DOMAIN val2),
                  Cardinality(DOMAIN val1 \cup DOMAIN val2))
         ELSE RZero
    ELSE ValueCloseness(val1, val2)

\* SimilarityServiceLite._calculate_basic_similarity; the sums are in
\* hundredths
CalculateBasicSimilarity(features1, features2) ==
    LET n == Len(BasicFeatures)
        both == {f \in DOMAIN BasicWeights :
                    f \in DOMAIN features1 /\ f \in DOMAIN features2}
        total_similarity ==
            RSumRange([i \in 1..n |->
                         IF BasicFeatures[i] \in both
                         THEN RMul(BasicFeatureSimilarity(features1[BasicFeatures[i]],
                                                          features2[BasicFeatures[i]],
                                                          BasicFeatures[i]),
                                   RInt(BasicWeights[BasicFeatures[i]]))
                         ELSE RZero],
                      1, n)
        total_weight ==
            ISumRange([i \in 1..n |->
                         IF BasicFeatures[i] \in both
                         THEN BasicWeights[BasicFeatures[i]] ELSE 0],
                      1, n)
    IN  IF total_weight > 0 THEN RDiv(total_similarity, RInt(total_weight)) ELSE RZero

\* ------------------------------------------------------------------------
\* The vector backend: sentence-transformers model and faiss IndexFlatIP
\* ------------------------------------------------------------------------
\* model.encode followed by faiss.normalize_L2: a unit vector, given as an
\* integer vector over the common norm EmbedNorm.
EmbedNorm == 5
Embed(t) ==
    IF t = EmptyText THEN <<0, 5>>
    ELSE IF t = TextA THEN <<3, 4>>
    ELSE <<5, 0>>

InnerProduct(u, v) == Rat(u[1] * v[1] + u[2] * v[2], EmbedNorm * EmbedNorm)

\* ------------------------------------------------------------------------
\* Parameters of the calls
\* ------------------------------------------------------------------------
DocIds == {"1", "2"}
\* the ids in the order FileSave's Meta ordering ('-created_at') yields them
NewestFirst == <<"2", "1">>
TopKs == {1, 2}
Thresholds == {RZero, <<9, 10>>}
\* the orders in which a set of the words may be iterated
HashOrders == {<<"similarity", "thresholds">>, <<"thresholds", "similarity">>}
\* cache.set(..., timeout=1800)
CacheTimeout == 1800
\* if self.index.ntotal % 50 == 0: self.save_index()
SavePeriod == 50

\* ------------------------------------------------------------------------
\* State
\* ------------------------------------------------------------------------
VARIABLES
    svc,                \* the service class this deployment instantiates
    ai_available,       \* self.ai_available
    index,              \* self.index: [present, vectors] (faiss.IndexFlatIP);
                        \* in the simple class self.ai_interface
    document_metadata,  \* self.document_metadata: the dict as its items in order
    disk,               \* the files under data/similarity_index
    cache,              \* django.core.cache: "similarity:<md5>" entries by query,
                        \* each with the seconds passed since it was put
    hashOrder,          \* this process's iteration order of sets of words
    faults,             \* how many calls have met a fault (a failed save_index,
                        \* a stored row that was not added) so far
    ret,                \* the last of the calls that write the index (construction,
                        \* add_document, rebuild) and what it returned
    scoring,            \* a scorer under test: its two arguments and what the
                        \* calls made on them have returned
    threads,            \* the request threads: where each is in its handler
    is_indexed,         \* the ids of the FileSave rows whose is_indexed is True
    download_status     \* AIDownloadManager.download_status

vars == <<svc, ai_available, index, document_metadata, disk, cache,
          hashOrder, faults, ret, scoring, threads, is_indexed, download_status>>

NoText == <<"-">>
NoFile == [kind |-> "missing", data |-> <<>>]
TornFile == [kind |-> "torn", data |-> <<>>]
File(d) == [kind |-> "ok", data |-> d]
NoEntry == [present |-> FALSE, result |-> <<>>, age |-> 0, timeout |-> 0]
NoIndex == [present |-> FALSE, vectors |-> <<>>]
NoScoring == [scorer |-> "none", features1 |-> NoFeatures, features2 |-> NoFeatures,
              scores |-> <<>>]
\* download_status as AIDownloadManager.__init__ sets it
NoDownload == [is_downloading |-> FALSE, progress |-> 0, error |-> "None",
               completed |-> FALSE]
Threads == {1, 2}
\* a request thread between two calls, calls of them made
Idle == [pc |-> "idle", calls |-> 0]
EmptyIndex == [present |-> TRUE, vectors |-> <<>>]

\* A call and its outcome as the caller sees it: value is the returned value
\* ("True", "None", "int"), the exception that left the call or, for a load,
\* the branch load_or_create_index took,
\* count the integer a rebuild returned, rows the stored rows a rebuild read
\* and what became of each, repeated whether a rebuild followed a rebuild
\* over the same rows
Ret(op, value, count, rows, repeated) ==
    [op |-> op, value |-> value, count |-> count, rows |-> rows, repeated |-> repeated]

\* ------------------------------------------------------------------------
\* Dict, list and cache helpers
\* ------------------------------------------------------------------------
Keys(md) == {md[i].key : i \in 1..Len(md)}

\* d[key] = value on a Python dict: an existing key keeps its position
DictSet(md, value) ==
    IF value.key \in Keys(md)
    THEN [i \in 1..Len(md) |-> IF md[i].key = value.key THEN value ELSE md[i]]
    ELSE Append(md, value)

\* d.get(key, {})
DictGet(md, key) ==
    IF key \in Keys(md)
    THEN md[CHOOSE i \in 1..Len(md) : md[i].key = key]
    ELSE [key |-> key, doc_id |-> "", content_preview |-> EmptyText,
          features |-> NoFeatures, pairs |-> "none"]

\* list.sort(key=similarity_score, reverse=True): stable, descending
SortByScore(l) ==
    LET before(i, j) == \/ RLess(l[i].similarity_score, l[j].similarity_score)
                        \/ /\ l[i].similarity_score = l[j].similarity_score
                           /\ j < i
        rank(i) == Cardinality({j \in 1..Len(l) : before(i, j)}) + 1
    IN  [k \in 1..Len(l) |-> l[CHOOSE i \in 1..Len(l) : rank(i) = k]]

\* l[:n]
Take(l, n) == IF Len(l) <= n THEN l ELSE SubSeq(l, 1, n)

\* cache.get(key): None once the entry's timeout has passed (an entry
\* expires when its expiry time is <= the clock); the result <<>> stands for
\* None as well as for a cached []
Expired(e) == e.timeout <= e.age

\* a cache.get that hands out an entry however old it is
CacheGetIgnoringExpiry(c, q) == IF c[q].present THEN c[q].result ELSE <<>>

CacheGet(c, q) == IF c[q].present /\ ~Expired(c[q]) THEN c[q].result ELSE <<>>

\* cache.set(key, value, timeout)
CacheSet(c, q, value, timeout) ==
    [c EXCEPT ![q] = [present |-> TRUE, result |-> value, age |-> 0, timeout |-> timeout]]

\* json.dump then json.load of document_metadata: string keys, numbers and
\* dicts come back as written, the (word, score) tuples of semantic_keywords
\* and topic_words come back as two-element lists
JsonRoundTrip(md) ==
    [i \in 1..Len(md) |-> [md[i] EXCEPT !.pairs = IF @ = "tuple" THEN "list" ELSE @]]

\* ------------------------------------------------------------------------
\* The extractors and scorers, tabulated over the sample texts
\* ------------------------------------------------------------------------
\* _extract_text_features of the simple and of the lite class on each text
SimpleFeatures == [t \in Texts |-> ExtractSimple(t)]
LiteFeatures == [t \in Texts |-> ExtractLite(t)]

\* _calculate_enhanced_similarity on each pair of extracted features, under
\* each iteration order of the common keys
EnhancedScore ==
    [ord \in HashOrders |->
       [f1 \in {SimpleFeatures[t] : t \in Texts} |->
          [f2 \in {SimpleFeatures[t] : t \in Texts} |->
             CalculateEnhancedSimilarity(f1, f2, ord)]]]

\* _calculate_basic_similarity on each pair of extracted features
BasicScore ==
    [f1 \in {LiteFeatures[t] : t \in Texts} |->
       [f2 \in {LiteFeatures[t] : t \in Texts} |->
          CalculateBasicSimilarity(f1, f2)]]

\* ------------------------------------------------------------------------
\* Searching
\* ------------------------------------------------------------------------
Result(id, score, preview) ==
    [doc_id |-> id, similarity_score |-> score, content_preview |-> preview]

\* the scan, filter, sort and cut of _find_similar_enhanced (lines 413-430)
FindSimilarEnhanced(md, q, top_k, threshold, ord) ==
    LET query_features == SimpleFeatures[q]
        scored == [i \in 1..Len(md) |->
                     Result(md[i].key,
                            EnhancedScore[ord][query_features][md[i].features],
                            md[i].content_preview)]
        similarities == SelectSeq(scored, LAMBDA r : RLeq(threshold, r.similarity_score))
    IN  Take(SortByScore(similarities), top_k)

\* the scan, filter, sort and cut of _find_similar_basic (lines 268-288)
FindSimilarBasic(md, q, top_k, threshold) ==
    LET query_features == LiteFeatures[q]
        scored == [i \in 1..Len(md) |->
                     Result(md[i].doc_id,
                            BasicScore[query_features][md[i].features],
                            md[i].content_preview)]
        similarities == SelectSeq(scored, LAMBDA r : RLeq(threshold, r.similarity_score))
    IN  Take(SortByScore(similarities), top_k)

\* faiss IndexFlatIP.search: the top_k stored vectors by inner product, best
\* first, as <<position, score>> with positions from 0 (the padding entries
\* of position -1 carry the lowest float and never pass a threshold)
FaissSearch(vectors, qv, top_k) ==
    LET hits == [i \in 1..Len(vectors) |->
                   [pos |-> i - 1, similarity_score |-> InnerProduct(qv, vectors[i])]]
    IN  Take(SortByScore(hits), top_k)

\* the search and filter of the vector path (similarity_service.py lines
\* 102-119, similarity_service_lite.py lines 231-249)
FindSimilarVector(ix, md, q, top_k, threshold) ==
    LET found == FaissSearch(ix.vectors, Embed(q), top_k)
        kept == SelectSeq(found, LAMBDA h : RLeq(threshold, h.similarity_score))
    IN  [i \in 1..Len(kept) |->
           Result(DictGet(md, kept[i].pos).doc_id, kept[i].similarity_score,
                  DictGet(md, kept[i].pos).content_preview)]

\* ------------------------------------------------------------------------
\* Persistence
\* ------------------------------------------------------------------------
\* How a save_index call ends.  open(file, 'w') truncates the file in place
\* and json.dump / faiss.write_index fill it, so a failure leaves the file
\* as it was (the open itself fails) or torn (the write fails midway).
\*   ok          every file written in full
\*   open_fails  the first file cannot be opened: nothing is written
\*   torn        the first file is torn, the second is not reached
\*   meta_fails  (vector) faiss_index.bin written, metadata.json not opened
SaveOutcomes == {"ok", "open_fails", "torn", "meta_fails"}
BasicSaveOutcomes == {"ok", "open_fails", "torn"}

\* save_index of all three classes; vector = the branch that writes both files
SaveIndex(vector, ix, md, d, outcome) ==
    IF vector
    THEN CASE outcome = "ok" -> [faiss |-> File(ix.vectors), meta |-> File(md)]
           [] outcome = "open_fails" -> d
           [] outcome = "torn" -> [d EXCEPT !.faiss = TornFile]
           [] OTHER -> [d EXCEPT !.faiss = File(ix.vectors)]
    ELSE CASE outcome = "ok" -> [d EXCEPT !.meta = File(md)]
           [] outcome = "open_fails" -> d
           [] OTHER -> [d EXCEPT !.meta = TornFile]

\* the save_index branch a service takes
SavesVector(s, ai, ix) == s = "full" \/ (s = "lite" /\ ai /\ ix.present)
SaveFits(s, ai, ix, outcome) ==
    /\ SavesVector(s, ai, ix) \/ outcome \in BasicSaveOutcomes
    /\ outcome = "ok" \/ faults < MaxFaults

Faults(outcome) == IF outcome = "ok" THEN faults ELSE faults + 1

\* SimilarityServiceSimple.load_or_create_index
LoadSimple(d) == IF d.meta.kind = "ok" THEN JsonRoundTrip(d.meta.data) ELSE <<>>

\* a load_or_create_index that leaves self.index as __init__ set it when
\* there is nothing to read
LoadVectorWithoutCreate(s, ai, d) ==
    IF (s = "full" \/ ai) /\ d.faiss.kind = "ok" /\ d.meta.kind = "ok"
    THEN <<[present |-> TRUE, vectors |-> d.faiss.data], JsonRoundTrip(d.meta.data)>>
    ELSE <<NoIndex, <<>> >>

\* load_or_create_index and _create_new_index of the lite and the full class,
\* run on the fields __init__ has just set: <<index, document_metadata>>
LoadVector(s, ai, d) ==
    IF (s = "full" \/ ai) /\ d.faiss.kind # "missing" /\ d.meta.kind # "missing"
    THEN IF d.faiss.kind = "ok" /\ d.meta.kind = "ok"
         THEN <<[present |-> TRUE, vectors |-> d.faiss.data], JsonRoundTrip(d.meta.data)>>
         ELSE <<EmptyIndex, <<>> >>
    ELSE <<IF s = "full" \/ ai THEN EmptyIndex ELSE NoIndex, <<>> >>

\* the branch load_or_create_index takes: the artifacts are read ("loaded"),
\* reading them raises and the handler creates a new index ("failed"), or
\* the else branch creates a new index ("created")
LoadBranch(s, ai, d) ==
    IF s = "simple"
    THEN IF d.meta.kind = "missing" THEN "created"
         ELSE IF d.meta.kind = "ok" THEN "loaded" ELSE "failed"
    ELSE IF (s = "full" \/ ai) /\ d.faiss.kind # "missing" /\ d.meta.kind # "missing"
    THEN IF d.faiss.kind = "ok" /\ d.meta.kind = "ok" THEN "loaded" ELSE "failed"
    ELSE "created"

\* ------------------------------------------------------------------------
\* Initial state: a first start on an empty index directory
\* ------------------------------------------------------------------------
\* the state after the service module of class s has been imported
Start(s) ==
    /\ svc = s
    /\ ai_available \in (IF svc = "lite" THEN BOOLEAN
                         ELSE IF svc = "full" THEN {TRUE} ELSE {FALSE})
    /\ index = IF svc = "full" \/ (svc = "lite" /\ ai_available) THEN EmptyIndex ELSE NoIndex
    /\ document_metadata = <<>>
    /\ disk = [faiss |-> NoFile, meta |-> NoFile]
    /\ cache = [q \in Queries |-> NoEntry]
    /\ hashOrder \in (IF svc = "simple" THEN HashOrders
                      ELSE {<<"similarity", "thresholds">>})
    /\ faults = 0
    /\ ret = Ret("init", "None", 0, <<>>, FALSE)
    /\ is_indexed = {}
    /\ download_status = NoDownload

\* a deployment of the simple or of the lite class, and one of the full class
Init ==
    /\ Start("simple") \/ Start("lite")
    /\ scoring = NoScoring
    /\ threads = [t \in Threads |-> Idle]

InitFull ==
    /\ Start("full")
    /\ scoring = NoScoring
    /\ threads = [t \in Threads |-> Idle]

\* what add_document returns once the record is in the index: True, whether
\* the save_index it called wrote the files or logged a failure
AddReturns == Ret("add", "True", 0, <<>>, FALSE)

\* a dispatch that does not look at ai_available
UsesVectorUnchecked == svc \in {"lite", "full"}

\* the branch add_document and find_similar_documents take
UsesVector == svc = "full" \/ (svc = "lite" /\ ai_available /\ index.present)

\* ------------------------------------------------------------------------
\* add_document
\* ------------------------------------------------------------------------
\* SimilarityServiceSimple.add_document: the record goes under its doc_id and
\* the index is saved on every call
AddSimple(id, t, outcome) ==
    /\ svc = "simple"
    /\ SaveFits(svc, ai_available, index, outcome)
    /\ faults' = Faults(outcome)
    /\ document_metadata' =
           DictSet(document_metadata,
                   [key |-> id, doc_id |-> id, content_preview |-> t,
                    features |-> SimpleFeatures[t], pairs |-> "tuple"])
    /\ disk' = SaveIndex(FALSE, index, document_metadata', disk, outcome)
    /\ ret' = AddReturns
    /\ UNCHANGED <<svc, ai_available, index, cache, hashOrder, scoring, threads,
                   download_status>>

\* SimilarityServiceSimple.add_document when cache.set raises (the cache
\* backend cannot be reached): the record is in the dict by then, save_index
\* is not reached, the except clause logs the exception and returns False
AddSimpleFails(id, t) ==
    /\ svc = "simple"
    /\ faults < MaxFaults
    /\ faults' = faults + 1
    /\ document_metadata' =
           DictSet(document_metadata,
                   [key |-> id, doc_id |-> id, content_preview |-> t,
                    features |-> SimpleFeatures[t], pairs |-> "tuple"])
    /\ ret' = Ret("add", "False", 0, <<>>, FALSE)
    /\ UNCHANGED <<svc, ai_available, index, disk, cache, hashOrder, scoring, threads,
                   download_status>>

\* SimilarityServiceLite._add_document_basic: the record goes under the
\* position len(document_metadata); nothing is saved
AddBasic(id, t) ==
    /\ svc = "lite" /\ ~UsesVector
    /\ Len(document_metadata) < MaxRecords
    /\ document_metadata' =
           DictSet(document_metadata,
                   [key |-> Len(document_metadata), doc_id |-> id, content_preview |-> t,
                    features |-> LiteFeatures[t], pairs |-> "none"])
    /\ ret' = AddReturns
    /\ UNCHANGED <<svc, ai_available, index, disk, cache, hashOrder, faults, scoring, threads, is_indexed, download_status>>

\* DocumentSimilarityService.add_document and
\* SimilarityServiceLite._add_document_with_ai: the vector is appended, the
\* record goes under the position ntotal - 1, and the index is saved when
\* ntotal is a multiple of SavePeriod
AddVector(id, t, outcome) ==
    /\ UsesVector
    /\ Len(index.vectors) < MaxRecords
    /\ index' = [index EXCEPT !.vectors = Append(@, Embed(t))]
    /\ document_metadata' =
           DictSet(document_metadata,
                   [key |-> Len(index'.vectors) - 1, doc_id |-> id, content_preview |-> t,
                    features |-> NoFeatures, pairs |-> "none"])
    /\ IF Len(index'.vectors) % SavePeriod = 0
       THEN /\ SaveFits(svc, ai_available, index', outcome)
            /\ disk' = SaveIndex(TRUE, index', document_metadata', disk, outcome)
       ELSE outcome = "ok" /\ disk' = disk
    /\ faults' = Faults(outcome)
    /\ ret' = AddReturns
    /\ UNCHANGED <<svc, ai_available, cache, hashOrder, scoring, threads, is_indexed, download_status>>

\* add_document(doc_id, content) on the service of this deployment
Add(id, t) ==
    /\ \E outcome \in SaveOutcomes :
           \/ AddSimple(id, t, outcome)
           \/ outcome = "ok" /\ AddSimpleFails(id, t)
           \/ outcome = "ok" /\ AddBasic(id, t)
           \/ AddVector(id, t, outcome)
    /\ UNCHANGED is_indexed

AddDocument == \E id \in DocIds, t \in Contents : Add(id, t)

\* ------------------------------------------------------------------------
\* find_similar_documents
\* ------------------------------------------------------------------------
\* An object handed to set_ai_interface of the simple class: a vector index
\* of its own over the documents it was given.  For the simple class the
\* variable index holds self.ai_interface (NoIndex: None).
AiInterface == [present |-> TRUE, vectors |-> <<Embed(TextA)>>]
AiInterfaceMetadata ==
    <<[key |-> 0, doc_id |-> "1", content_preview |-> TextA, features |-> NoFeatures,
       pairs |-> "none"]>>

\* SimilarityServiceSimple._try_ai_similarity: what the interface finds, []
\* when there is none
AiSimilarity(ix, q, top_k, threshold) ==
    IF ix.present THEN FindSimilarVector(ix, AiInterfaceMetadata, q, top_k, threshold)
    ELSE <<>>

\* what find_similar_documents does after a cache miss: <<result, source, put>>
\* where source tells how the call ended and put whether cache.set was reached
\*   simple      the AI interface when one is set and finds something
\*               (returned without cache.set), else _find_similar_enhanced
\*   lite basic  _find_similar_basic
\*   lite AI     _find_similar_with_ai: after the search, cache.set names the
\*               undefined cache_key; the NameError is caught and [] returned
\*   full        DocumentSimilarityService.find_similar_documents
Search(s, ai, ix, md, ord, q, top_k, threshold) ==
    IF s = "simple"
    THEN IF ai /\ AiSimilarity(ix, q, top_k, threshold) # <<>>
         THEN <<AiSimilarity(ix, q, top_k, threshold), "ai", FALSE>>
         ELSE IF md = <<>> THEN << <<>>, "empty", FALSE >>
         ELSE <<FindSimilarEnhanced(md, q, top_k, threshold, ord), "computed", TRUE>>
    ELSE IF ~(s = "full" \/ (ai /\ ix.present))
    THEN IF md = <<>> THEN << <<>>, "empty", FALSE >>
         ELSE <<FindSimilarBasic(md, q, top_k, threshold), "computed", TRUE>>
    ELSE IF ix.vectors = <<>> THEN << <<>>, "empty", FALSE >>
    ELSE IF s = "lite" THEN << <<>>, "error", FALSE >>
    ELSE <<FindSimilarVector(ix, md, q, top_k, threshold), "computed", TRUE>>

\* find_similar_documents of the three classes: the list it returns, how
\* the call ended ("cache": a truthy cached list is returned as it is,
\* whatever top_k and threshold the call carries) and the cache it leaves
FindDocuments(c, s, ai, ix, md, ord, q, top_k, threshold) ==
    LET cached_result == CacheGet(c, q)
        found == Search(s, ai, ix, md, ord, q, top_k, threshold)
    IN  IF cached_result # <<>>
        THEN [result |-> cached_result, source |-> "cache", cache |-> c]
        ELSE [result |-> found[1], source |-> found[2],
              cache |-> IF found[3] THEN CacheSet(c, q, found[1], CacheTimeout) ELSE c]

\* the same, called in the current state
SearchIndex(q, top_k, threshold) ==
    Search(svc, ai_available, index, document_metadata, hashOrder, q, top_k, threshold)

FindSimilarDocuments(q, top_k, threshold) ==
    FindDocuments(cache, svc, ai_available, index, document_metadata, hashOrder,
                  q, top_k, threshold)

Find(q, top_k, threshold) ==
    /\ cache' = FindSimilarDocuments(q, top_k, threshold).cache
    /\ UNCHANGED <<svc, ai_available, index, document_metadata, disk, hashOrder, faults, ret, scoring, threads, is_indexed, download_status>>

FindSimilar ==
    \E q \in Queries, top_k \in TopKs, threshold \in Thresholds : Find(q, top_k, threshold)

\* ------------------------------------------------------------------------
\* save_index, rebuild, process restart, time
\* ------------------------------------------------------------------------
\* a direct call of save_index; it returns None, failures are only logged
Save ==
    \E outcome \in SaveOutcomes :
        /\ SaveFits(svc, ai_available, index, outcome)
        /\ faults' = Faults(outcome)
        /\ disk' = SaveIndex(SavesVector(svc, ai_available, index), index,
                             document_metadata, disk, outcome)
        /\ UNCHANGED <<svc, ai_available, index, document_metadata, cache, hashOrder, ret, scoring, threads, is_indexed, download_status>>

\* What FileSave.objects.filter(...) can yield under Meta.ordering =
\* ['-created_at']: the stored rows of text content, newest first
StoredDocs ==
    {SelectSeq([i \in 1..Len(NewestFirst) |-> [id |-> NewestFirst[i], text |-> rows[NewestFirst[i]]]],
               LAMBDA d : d.text # NoText) :
       rows \in [DocIds -> Contents \cup {NoText}]}

\* what the rebuild loop does with one stored row: its content is decoded and
\* add_document inserts it; base64/utf-8 decoding raises, the row is logged
\* and skipped; add_document catches a failure of the encoder and returns
\* False, which the loop does not look at
RowFates == {"added", "undecodable", "add_fails"}

\* a rebuild that keeps the records it finds
KeepMetadata(md) == md

\* self.document_metadata = {} at the head of a rebuild
ClearMetadata(md) == <<>>

\* add_document as the rebuild loop calls it, on <<index, document_metadata>>
Inserted(vector, ixmd, doc) ==
    IF vector
    THEN << [ixmd[1] EXCEPT !.vectors = Append(@, Embed(doc.text))],
            DictSet(ixmd[2], [key |-> Len(ixmd[1].vectors), doc_id |-> doc.id,
                              content_preview |-> doc.text, features |-> NoFeatures,
                              pairs |-> "none"]) >>
    ELSE << ixmd[1],
            DictSet(ixmd[2], [key |-> Len(ixmd[2]), doc_id |-> doc.id,
                              content_preview |-> doc.text,
                              features |-> LiteFeatures[doc.text], pairs |-> "none"]) >>

\* the for loop of the rebuild from row i on
RECURSIVE RebuildLoop(_, _, _, _, _)
RebuildLoop(vector, ixmd, docs, fate, i) ==
    IF i > Len(docs) THEN ixmd
    ELSE RebuildLoop(vector,
                     IF fate[i] = "added" THEN Inserted(vector, ixmd, docs[i]) ELSE ixmd,
                     docs, fate, i + 1)

\* success_count: one for every row whose round reached the line after
\* add_document
SuccessCount(docs, fate) == Cardinality({i \in 1..Len(docs) : fate[i] # "undecodable"})

\* <<index, document_metadata>> when the loop of a rebuild has ended
Rebuilt(vector, ix, md, docs, fate) ==
    RebuildLoop(vector, << IF vector THEN EmptyIndex ELSE ix, ClearMetadata(md) >>,
                docs, fate, 1)

\* rows that are not added count as a fault of the call, and a call has
\* one fault at most
AllAdded(docs, fate) == \A i \in 1..Len(docs) : fate[i] = "added"
RowsFit(docs, fate, outcome) ==
    AllAdded(docs, fate) \/ (outcome = "ok" /\ faults < MaxFaults)

\* what a rebuild returns: success_count, whether the save_index at its end
\* wrote the files or logged a failure
RebuildReturns(docs, fate) ==
    Ret("rebuild", "int", SuccessCount(docs, fate), <<docs, fate>>,
        ret.op = "rebuild" /\ ret.rows = <<docs, fate>>)

\* SimilarityServiceLite.rebuild_index and
\* DocumentSimilarityService.rebuild_index_from_database: the index is
\* emptied, every stored document is added again (no add reaches a multiple
\* of SavePeriod within MaxRecords), the index is saved and success_count
\* returned; the query cache is left as it is
RebuildIndex(docs, fate, outcome) ==
    LET vector == SavesVector(svc, ai_available, index)
        rebuilt == Rebuilt(vector, index, document_metadata, docs, fate)
    IN  /\ svc \in {"lite", "full"}
        /\ vector \/ \A i \in 1..Len(docs) : fate[i] # "add_fails"
        /\ SaveFits(svc, ai_available, index, outcome)
        /\ RowsFit(docs, fate, outcome)
        /\ faults' = IF AllAdded(docs, fate) THEN Faults(outcome) ELSE faults + 1
        /\ index' = rebuilt[1]
        /\ document_metadata' = rebuilt[2]
        /\ disk' = SaveIndex(vector, index', document_metadata', disk, outcome)
        /\ ret' = RebuildReturns(docs, fate)
        /\ UNCHANGED <<svc, ai_available, cache, hashOrder, scoring, threads, is_indexed, download_status>>

Rebuild ==
    \E outcome \in SaveOutcomes, docs \in StoredDocs :
        \E fate \in [1..Len(docs) -> RowFates] : RebuildIndex(docs, fate, outcome)

\* FileSaveViewSet.rebuild_similarity_index: the view calls
\* similarity_service_simple.rebuild_index_from_database(), a method that
\* SimilarityServiceSimple does not define.  The AttributeError leaves the
\* try block before anything is changed and the view answers with status 500.
RebuildSimilarityIndex ==
    /\ svc = "simple"
    /\ ret' = Ret("rebuild", "AttributeError", 0, <<>>, FALSE)
    /\ UNCHANGED <<svc, ai_available, index, document_metadata, disk, cache,
                   hashOrder, faults, scoring, threads, is_indexed, download_status>>

\* SimilarityServiceSimple.set_ai_interface(ai_interface), with an interface
\* or with None
SetAiInterface ==
    /\ svc = "simple"
    /\ \E ai_interface \in {NoIndex, AiInterface} :
           /\ index' = ai_interface
           /\ ai_available' = ai_interface.present
    /\ UNCHANGED <<svc, document_metadata, disk, cache, hashOrder, faults, ret,
                   scoring, threads, is_indexed, download_status>>

\* The process ends and a new one constructs the service: __init__ and
\* load_or_create_index.  The default cache is process memory and starts
\* empty, string hashing is seeded anew, the lite class finds the AI
\* backend ready or not (once installed it stays installed), and a new
\* download manager has no download and no worker thread.
Restart ==
    \E ready \in BOOLEAN, ord \in HashOrders :
        /\ ready = IF svc = "lite"
                   THEN ready \/ ai_available \/ download_status.completed
                   ELSE svc = "full"
        /\ ord = IF svc = "simple" THEN ord ELSE hashOrder
        /\ ai_available' = ready
        /\ hashOrder' = ord
        /\ IF svc = "simple"
           THEN index' = NoIndex /\ document_metadata' = LoadSimple(disk)
           ELSE /\ index' = LoadVector(svc, ready, disk)[1]
                /\ document_metadata' = LoadVector(svc, ready, disk)[2]
        /\ cache' = [q \in Queries |-> NoEntry]
        /\ ret' = Ret("load", LoadBranch(svc, ready, disk), 0, <<>>, FALSE)
        /\ threads' = [t \in Threads |-> Idle]
        /\ download_status' = NoDownload
        /\ UNCHANGED <<svc, disk, faults, scoring, is_indexed>>

\* TickSeconds pass: every cache entry grows older (entries of MaxAge and
\* more are no longer aged)
Tick ==
    /\ \E q \in Queries : cache[q].present /\ cache[q].age < MaxAge
    /\ cache' = [q \in Queries |->
                   IF cache[q].present /\ cache[q].age < MaxAge
                   THEN [cache[q] EXCEPT !.age = @ + TickSeconds]
                   ELSE cache[q]]
    /\ UNCHANGED <<svc, ai_available, index, document_metadata, disk, hashOrder, faults, ret, scoring, threads, is_indexed, download_status>>

Next ==
    \/ AddDocument
    \/ FindSimilar
    \/ Save
    \/ Rebuild
    \/ RebuildSimilarityIndex
    \/ Restart
    \/ Tick

Spec == Init /\ [][Next]_vars

\* the calls of DocumentSimilarityService
NextFull ==
    \/ \E id \in DocIds, t \in Contents, outcome \in SaveOutcomes : AddVector(id, t, outcome)
    \/ FindSimilar
    \/ Save
    \/ Rebuild
    \/ Restart
    \/ Tick

SpecFull == InitFull /\ [][NextFull]_vars

\* ------------------------------------------------------------------------
\* The simple class behind FileSaveViewSet
\* ------------------------------------------------------------------------
\* FileSaveViewSet.create (save_to_similar_file does the same after
\* create_new_file): the row is stored, its content is handed to
\* add_document, whose return value is dropped, and the row's is_indexed is
\* set
Create ==
    \E id \in DocIds \ is_indexed, content \in Contents :
        /\ \E outcome \in SaveOutcomes :
               \/ AddSimple(id, content, outcome)
               \/ outcome = "ok" /\ AddSimpleFails(id, content)
        /\ is_indexed' = is_indexed \cup {id}

InitViews ==
    /\ Start("simple")
    /\ scoring = NoScoring
    /\ threads = [t \in Threads |-> Idle]

NextViews ==
    \/ Create
    \/ FindSimilar
    \/ SetAiInterface
    \/ RebuildSimilarityIndex
    \/ Restart
    \/ Tick

SpecViews == InitViews /\ [][NextViews]_vars

\* what is added, stored and asked for where calls interleave: one content
\* is enough to tell the interleavings apart
ThreadContents == {TextA}
ThreadDocs == {docs \in StoredDocs : \A i \in 1..Len(docs) : docs[i].text \in ThreadContents}
ThreadThresholds == {RZero}

\* ------------------------------------------------------------------------
\* The lite class and the download of the AI environment
\* ------------------------------------------------------------------------
\* a thread from which download_ai_environment has returned value
Downloaded(thr, value) == [pc |-> "downloaded", calls |-> thr.calls + 1, value |-> value]

\* download_ai_environment up to the call of _install_ai_dependencies; the
\* manager has one download_thread, and start_background_download starts no
\* second worker while it is alive
DownloadBegin(t) ==
    /\ threads[t].pc \in {"idle", "downloaded"}
    /\ threads[t].calls < MaxCalls
    /\ \A u \in Threads \ {t} : threads[u].pc = "idle"
    /\ download_status' = [is_downloading |-> TRUE, progress |-> 10, error |-> "None",
                           completed |-> FALSE]
    /\ threads' = [threads EXCEPT ![t] = [pc |-> "install", calls |-> @.calls]]
    /\ UNCHANGED <<svc, ai_available, index, document_metadata, disk, cache, hashOrder,
                   faults, ret, scoring, is_indexed>>

\* the end of download_ai_environment: the finally clause and the return
DownloadReturns(t, status, value) ==
    /\ download_status' = [status EXCEPT !.is_downloading = FALSE]
    /\ threads' = [threads EXCEPT ![t] = Downloaded(@, value)]

\* step 1: _install_ai_dependencies returns True, or False when an
\* installation fails or raises
InstallAiDependencies(t, installed) ==
    /\ threads[t].pc = "install"
    /\ IF installed
       THEN /\ download_status' = [download_status EXCEPT !.progress = 30]
            /\ threads' = [threads EXCEPT ![t].pc = "model"]
       ELSE DownloadReturns(t, download_status, FALSE)
    /\ UNCHANGED <<svc, ai_available, index, document_metadata, disk, cache, hashOrder,
                   faults, ret, scoring, is_indexed>>

\* step 2: _download_sentence_transformer_model returns True, returns False
\* after its attempts, or catches an exception, reports it as the error and
\* returns False
DownloadSentenceTransformerModel(t, result) ==
    /\ threads[t].pc = "model"
    /\ CASE result = "True" ->
              /\ download_status' = [download_status EXCEPT !.progress = 80]
              /\ threads' = [threads EXCEPT ![t].pc = "faiss"]
         [] result = "False" -> DownloadReturns(t, download_status, FALSE)
         [] OTHER -> DownloadReturns(t, [download_status EXCEPT !.error = "str"], FALSE)
    /\ UNCHANGED <<svc, ai_available, index, document_metadata, disk, cache, hashOrder,
                   faults, ret, scoring, is_indexed>>

\* step 3: _create_faiss_index returns True, and the download is complete,
\* or False
CreateFaissIndex(t, created) ==
    /\ threads[t].pc = "faiss"
    /\ IF created
       THEN DownloadReturns(t, [download_status EXCEPT !.progress = 100,
                                                       !.completed = TRUE], TRUE)
       ELSE DownloadReturns(t, download_status, FALSE)
    /\ UNCHANGED <<svc, ai_available, index, document_metadata, disk, cache, hashOrder,
                   faults, ret, scoring, is_indexed>>

DownloadAiEnvironment ==
    \E t \in Threads :
        \/ DownloadBegin(t)
        \/ \E installed \in BOOLEAN : InstallAiDependencies(t, installed)
        \/ \E result \in {"True", "False", "raises"} :
               DownloadSentenceTransformerModel(t, result)
        \/ \E created \in BOOLEAN : CreateFaissIndex(t, created)

\* a start of the lite class in which _try_load_ai_model loads the model and
\* every later import of faiss raises ImportError: load_or_create_index ends
\* in _create_new_index, whose handler sets self.index = None and leaves
\* self.ai_available as it is
CreateNewIndex ==
    /\ svc = "lite"
    /\ faults < MaxFaults
    /\ faults' = faults + 1
    /\ ai_available' = TRUE
    /\ index' = NoIndex
    /\ document_metadata' = <<>>
    /\ cache' = [q \in Queries |-> NoEntry]
    /\ ret' = Ret("load", IF disk.faiss.kind # "missing" /\ disk.meta.kind # "missing"
                          THEN "failed" ELSE "created", 0, <<>>, FALSE)
    /\ threads' = [t \in Threads |-> Idle]
    /\ download_status' = NoDownload
    /\ UNCHANGED <<svc, disk, hashOrder, scoring, is_indexed>>

\* SimilarityServiceLite.get_index_stats, without last_updated
GetIndexStats(ai, md) ==
    [total_documents |-> Len(md), ai_available |-> ai,
     index_type |-> IF ai THEN "AI" ELSE "Basic"]

InitAi ==
    /\ Start("lite")
    /\ scoring = NoScoring
    /\ threads = [t \in Threads |-> Idle]

\* the download beside add_document, rebuild_index (every row added, the
\* index saved) and restarts
NextAi ==
    \/ DownloadAiEnvironment
    \/ \E id \in DocIds, t \in ThreadContents : Add(id, t)
    \/ \E docs \in ThreadDocs : RebuildIndex(docs, [i \in 1..Len(docs) |-> "added"], "ok")
    \/ Restart
    \/ CreateNewIndex

SpecAi == InitAi /\ [][NextAi]_vars

\* ------------------------------------------------------------------------
\* The scorers on their own
\* ------------------------------------------------------------------------
service == <<svc, ai_available, index, document_metadata, disk, cache, hashOrder,
             faults, ret, is_indexed, download_status>>

\* the texts of at most MaxWords words
ScoreTexts == UNION {[1..n -> {"similarity", "thresholds"}] : n \in 0..MaxWords}

Scorers == {"enhanced", "basic"}

\* _extract_text_features of the class the scorer belongs to
Extract(scorer, t) == IF scorer = "enhanced" THEN ExtractSimple(t) ELSE ExtractLite(t)

\* one call of the scorer.  ord is the order in which this call iterates the
\* common keys of a dict feature: keys1.intersection(keys2) is a new set, its
\* order follows the string hashes of this process and, for keys that meet in
\* the set's table, the insertion order of the operand that is walked, so two
\* calls of one process need not iterate alike
ScoreOf(scorer, features1, features2, ord) ==
    IF scorer = "enhanced"
    THEN CalculateEnhancedSimilarity(features1, features2, ord)
    ELSE CalculateBasicSimilarity(features1, features2)

\* two texts have been put through the extractor of a scorer
InitScore ==
    /\ Start("simple")
    /\ hashOrder = <<"similarity", "thresholds">>
    /\ threads = [t \in Threads |-> Idle]
    /\ \E scorer \in Scorers, t1 \in ScoreTexts, t2 \in ScoreTexts :
           scoring = [scorer |-> scorer, features1 |-> Extract(scorer, t1),
                      features2 |-> Extract(scorer, t2), scores |-> <<>>]

\* score(features1, features2)
Score ==
    /\ Len(scoring.scores) = 0
    /\ \E ord \in HashOrders :
           scoring' = [scoring EXCEPT !.scores =
                          <<ScoreOf(scoring.scorer, scoring.features1, scoring.features2, ord)>>]
    /\ UNCHANGED <<service, threads>>

\* then score(features2, features1)
ScoreSwapped ==
    /\ Len(scoring.scores) = 1
    /\ \E ord \in HashOrders :
           scoring' = [scoring EXCEPT !.scores =
                          Append(@, ScoreOf(scoring.scorer, scoring.features2,
                                            scoring.features1, ord))]
    /\ UNCHANGED <<service, threads>>

NextScore ==
    \/ Score
    \/ ScoreSwapped

SpecScore == InitScore /\ [][NextScore]_vars

\* ------------------------------------------------------------------------
\* Request threads
\* ------------------------------------------------------------------------
\* The service is one module-level instance that every request thread of the
\* process calls, and no method of the classes takes a lock.  A thread is
\* idle or inside one call, between two of its statements; a step below is
\* the stretch of a call up to the next point where another thread can run.

\* inside add_document of the simple class, before self.save_index()
Saving(n) == [pc |-> "save", calls |-> n]

\* a thread that has returned from its call
Back(thr) == [pc |-> "idle", calls |-> thr.calls + 1]

\* a thread that has returned found from find_similar_documents
Found(thr, found) == [pc |-> "idle", calls |-> thr.calls + 1, found |-> found]

\* a thread that may make another call
Free(thr) == thr.pc = "idle" /\ thr.calls < MaxCalls

\* inside _find_similar_enhanced or _find_similar_basic, in the for loop over
\* self.document_metadata.items(): size is the length of the dict when the
\* iterator was made, detached whether self.document_metadata has since been
\* bound to a new dict, records the items of the dict the iterator is on
Scanning(n, q, top_k, threshold, md) ==
    [pc |-> "scan", calls |-> n, q |-> q, top_k |-> top_k, threshold |-> threshold,
     size |-> Len(md), detached |-> FALSE, records |-> <<>>]

\* inside rebuild_index, in the for loop or before the save_index after it:
\* i is the next row, before <<index, document_metadata>> as the call found
\* them, alone whether no other call has written the index since
Looping(n, docs, fate, before) ==
    [pc |-> "loop", calls |-> n, docs |-> docs, fate |-> fate, i |-> 1, before |-> before,
     alone |-> TRUE]

\* what a step of one thread that writes self.document_metadata means for
\* another thread
Disturbed(thr) ==
    IF thr.pc \in {"loop", "aborted"} THEN [thr EXCEPT !.alone = FALSE] ELSE thr

\* what self.document_metadata = {} means for another thread: an iterator
\* stays on the dict it was made on, which nothing writes any more
Detached(thr, md) ==
    IF thr.pc = "scan" /\ ~thr.detached
    THEN [thr EXCEPT !.detached = TRUE, !.records = md]
    ELSE Disturbed(thr)

\* find_similar_documents up to the for loop: a cached result or an empty
\* index ends the call at once
FindBegin(t, q, top_k, threshold) ==
    /\ Free(threads[t])
    /\ threads' = [threads EXCEPT ![t] =
                      IF CacheGet(cache, q) # <<>> \/ document_metadata = <<>>
                      THEN Found(@, CacheGet(cache, q))
                      ELSE Scanning(@.calls, q, top_k, threshold, document_metadata)]
    /\ UNCHANGED <<service, scoring>>

\* the for loop, the sort and cache.set.  A dict whose size has changed
\* under the iterator makes it raise RuntimeError, which the except clause
\* turns into the result []
FindScan(t) ==
    LET thr == threads[t]
        seen == IF thr.detached THEN thr.records ELSE document_metadata
        result == IF svc = "simple"
                  THEN FindSimilarEnhanced(seen, thr.q, thr.top_k, thr.threshold, hashOrder)
                  ELSE FindSimilarBasic(seen, thr.q, thr.top_k, thr.threshold)
    IN  /\ thr.pc = "scan"
        /\ cache' = IF Len(seen) # thr.size THEN cache
                    ELSE CacheSet(cache, thr.q, result, CacheTimeout)
        /\ threads' = [threads EXCEPT ![t] =
                          Found(@, IF Len(seen) # thr.size THEN <<>> ELSE result)]
        /\ UNCHANGED <<svc, ai_available, index, document_metadata, disk, hashOrder,
                       faults, ret, scoring, is_indexed, download_status>>

\* inside _add_document_basic of the lite class, between
\* doc_index = str(len(self.document_metadata)) and the store under it
Storing(n, key, id, content) ==
    [pc |-> "store", calls |-> n, key |-> key, id |-> id, content |-> content]

\* a thread that has returned True from add_document(id, ...) of the lite class
Added(thr, id) == [pc |-> "idle", calls |-> thr.calls + 1, added |-> id]

\* _add_document_basic up to the store: the features are extracted and the
\* position key is taken from the length of the dict
AddIndex(t, id, content) ==
    /\ svc = "lite"
    /\ Free(threads[t])
    /\ Len(document_metadata) < MaxRecords
    /\ threads' = [threads EXCEPT ![t] =
                      Storing(@.calls, Len(document_metadata), id, content)]
    /\ UNCHANGED <<service, scoring>>

\* the store into self.document_metadata: in the lite class, under the key
\* taken before, which ends the call; in the simple class, under the doc_id,
\* with save_index still to come
AddRecord(t, id, content) ==
    /\ IF svc = "simple" THEN Free(threads[t])
       ELSE /\ threads[t].pc = "store"
            /\ threads[t].id = id /\ threads[t].content = content
    /\ document_metadata' =
           DictSet(document_metadata,
                   IF svc = "simple"
                   THEN [key |-> id, doc_id |-> id, content_preview |-> content,
                         features |-> SimpleFeatures[content], pairs |-> "tuple"]
                   ELSE [key |-> threads[t].key, doc_id |-> id,
                         content_preview |-> content,
                         features |-> LiteFeatures[content], pairs |-> "none"])
    /\ threads' = [u \in Threads |->
                     IF u # t THEN Disturbed(threads[u])
                     ELSE IF svc = "simple" THEN Saving(threads[t].calls)
                     ELSE Added(threads[t], id)]
    /\ ret' = IF svc = "simple" THEN ret ELSE AddReturns
    /\ UNCHANGED <<svc, ai_available, index, disk, cache, hashOrder, faults, scoring, is_indexed, download_status>>

\* the save_index at the end of add_document of the simple class: it dumps
\* the dict as it is by now
AddSave(t, outcome) ==
    /\ threads[t].pc = "save"
    /\ outcome \in BasicSaveOutcomes
    /\ SaveFits(svc, ai_available, index, outcome)
    /\ faults' = Faults(outcome)
    /\ disk' = SaveIndex(FALSE, index, document_metadata, disk, outcome)
    /\ threads' = [threads EXCEPT ![t] = Back(@)]
    /\ ret' = AddReturns
    /\ UNCHANGED <<svc, ai_available, index, document_metadata, cache, hashOrder, scoring, is_indexed, download_status>>

\* rebuild_index of the lite class up to the for loop: the index is emptied
RebuildClear(t, docs, fate) ==
    /\ Free(threads[t])
    /\ svc = "lite"
    /\ \A i \in 1..Len(docs) : fate[i] # "add_fails"
    /\ AllAdded(docs, fate) \/ faults < MaxFaults
    /\ faults' = IF AllAdded(docs, fate) THEN faults ELSE faults + 1
    /\ document_metadata' = ClearMetadata(document_metadata)
    /\ threads' = [u \in Threads |->
                     IF u # t THEN Detached(threads[u], document_metadata)
                     ELSE Looping(threads[t].calls, docs, fate,
                                  <<index, document_metadata>>)]
    /\ UNCHANGED <<svc, ai_available, index, disk, cache, hashOrder, ret, scoring, is_indexed, download_status>>

\* one round of the for loop
RebuildRow(t) ==
    LET thr == threads[t]
    IN  /\ thr.pc = "loop"
        /\ thr.i <= Len(thr.docs)
        /\ document_metadata' =
               IF thr.fate[thr.i] = "added"
               THEN Inserted(FALSE, <<index, document_metadata>>, thr.docs[thr.i])[2]
               ELSE document_metadata
        /\ threads' = [u \in Threads |->
                         IF u # t THEN Disturbed(threads[u])
                         ELSE [thr EXCEPT !.i = @ + 1]]
        /\ UNCHANGED <<svc, ai_available, index, disk, cache, hashOrder, faults, ret, scoring, is_indexed, download_status>>

\* the save_index after the loop and the return of success_count
RebuildSave(t, outcome) ==
    LET thr == threads[t]
    IN  /\ thr.pc = "loop"
        /\ thr.i > Len(thr.docs)
        /\ outcome \in BasicSaveOutcomes
        /\ SaveFits(svc, ai_available, index, outcome)
        /\ faults' = Faults(outcome)
        /\ disk' = SaveIndex(FALSE, index, document_metadata, disk, outcome)
        /\ threads' = [threads EXCEPT ![t] = Back(@)]
        /\ ret' = RebuildReturns(thr.docs, thr.fate)
        /\ UNCHANGED <<svc, ai_available, index, document_metadata, cache, hashOrder, scoring, is_indexed, download_status>>

\* the iteration over the stored rows is outside the try block of the loop:
\* an exception out of it (the database connection is lost between two
\* rows), like the end of the worker that runs the rebuild, leaves
\* rebuild_index where it is, and the thread does not come back
RebuildAbort(t) ==
    LET thr == threads[t]
    IN  /\ thr.pc = "loop"
        /\ thr.i <= Len(thr.docs)
        /\ faults < MaxFaults
        /\ faults' = faults + 1
        /\ threads' = [threads EXCEPT ![t] = [thr EXCEPT !.pc = "aborted"]]
        /\ UNCHANGED <<svc, ai_available, index, document_metadata, disk, cache,
                       hashOrder, ret, scoring, is_indexed, download_status>>

\* a deployment of the simple class, or of the lite class in basic mode
InitThreads ==
    /\ Start("simple") \/ (Start("lite") /\ ~ai_available)
    /\ scoring = NoScoring
    /\ threads = [t \in Threads |-> Idle]

FindSimilarThread ==
    \E t \in Threads :
        \/ \E q \in Queries, top_k \in TopKs, threshold \in ThreadThresholds :
               FindBegin(t, q, top_k, threshold)
        \/ FindScan(t)

AddDocumentThread ==
    \E t \in Threads :
        \/ \E id \in DocIds, content \in ThreadContents :
               AddIndex(t, id, content) \/ AddRecord(t, id, content)
        \/ \E outcome \in SaveOutcomes : AddSave(t, outcome)

RebuildThread ==
    \E t \in Threads :
        \/ \E docs \in ThreadDocs :
               \E fate \in [1..Len(docs) -> RowFates] : RebuildClear(t, docs, fate)
        \/ RebuildRow(t)
        \/ \E outcome \in SaveOutcomes : RebuildSave(t, outcome)
        \/ RebuildAbort(t)

NextThreads ==
    \/ FindSimilarThread
    \/ AddDocumentThread
    \/ RebuildThread

SpecThreads == InitThreads /\ [][NextThreads]_vars

\* get_index_stats()['total_documents']: len(self.document_metadata) in the
\* simple and the lite class, self.index.ntotal in the full one
TotalDocumentsOf(s, ix, md) == IF s = "full" THEN Len(ix.vectors) ELSE Len(md)
TotalDocuments == TotalDocumentsOf(svc, index, document_metadata)

\* ========================================================================
\* Properties
\* ========================================================================
\* what find_similar_documents(q, top_k, threshold) returns in this state,
\* and what the same call does in the state a step leads to
Returned(q, top_k, threshold) == FindSimilarDocuments(q, top_k, threshold).result

SearchAfter(q, top_k, threshold) ==
    Search(svc', ai_available', index', document_metadata', hashOrder', q, top_k, threshold)

FindAfter(q, top_k, threshold) ==
    FindDocuments(cache', svc', ai_available', index', document_metadata', hashOrder',
                  q, top_k, threshold)

\* C1: whatever add_document, rebuild, save and load calls came before,
\* find_similar never returns two entries with the same doc_id.
C1_NoDuplicateDocId ==
    \A q \in Queries, top_k \in TopKs, threshold \in Thresholds :
        LET r == Returned(q, top_k, threshold)
        IN  \A i, j \in 1..Len(r) : i # j => r[i].doc_id # r[j].doc_id

\* C2: once add_document(id, text) has returned success, whatever the
\* history, find_similar(text, top_k=1, threshold=0) returns a non-empty list
\* whose first entry has doc_id = id.
C2_SelfMatchAfterAdd ==
    [][\A id \in DocIds, t \in Queries :
          (Add(id, t) /\ ret' = AddReturns) =>
              /\ FindAfter(t, 1, RZero).result # <<>>
              /\ FindAfter(t, 1, RZero).result[1].doc_id = id]_vars

\* C3: every entry find_similar(query, top_k, threshold) returns has a
\* similarity_score >= the threshold of that call, whatever calls with other
\* thresholds preceded it.
C3_ScoresReachThreshold ==
    \A q \in Queries, top_k \in TopKs, threshold \in Thresholds :
        LET r == Returned(q, top_k, threshold)
        IN  \A i \in 1..Len(r) : RLeq(threshold, r[i].similarity_score)

\* C4: find_similar(query, top_k, threshold) returns at most top_k entries,
\* whatever calls with other top_k values preceded it.
C4_AtMostTopK ==
    \A q \in Queries, top_k \in TopKs, threshold \in Thresholds :
        Len(Returned(q, top_k, threshold)) <= top_k

\* C5: whenever the index holds zero documents (fresh, loaded from missing
\* artifacts, or emptied by a rebuild over an empty source), find_similar
\* returns the empty list for every query, top_k and threshold.
C5_EmptyIndexReturnsEmpty ==
    (document_metadata = <<>> /\ index.vectors = <<>>) =>
        \A q \in Queries, top_k \in TopKs, threshold \in Thresholds :
            Returned(q, top_k, threshold) = <<>>

\* C6: of two find_similar calls with identical query content made one
\* after the other (within the TTL window, no index mutation between them),
\* the second returns the list of the first and performs no scoring; this
\* holds for every query that reached the scorer on the first call.
C6_SecondCallServedFromCache ==
    [][\A q \in Queries, top_k \in TopKs, threshold \in Thresholds :
          (/\ Find(q, top_k, threshold)
           /\ FindSimilarDocuments(q, top_k, threshold).source \in {"computed", "error"})
          => /\ FindAfter(q, top_k, threshold).source = "cache"
             /\ FindAfter(q, top_k, threshold).result = Returned(q, top_k, threshold)]_vars

\* C7: find_similar never returns a cache entry whose TTL of 30 minutes has
\* elapsed: with such an entry in the cache the call is not served from the
\* cache, and what it returns is the result computed on the current index.
C7_ExpiredEntryNotServed ==
    \A q \in Queries, top_k \in TopKs, threshold \in Thresholds :
        (cache[q].present /\ cache[q].age >= 30 * 60) =>
            /\ FindSimilarDocuments(q, top_k, threshold).source # "cache"
            /\ Returned(q, top_k, threshold) = SearchIndex(q, top_k, threshold)[1]

\* C7 witness: an expired entry is in the cache while the index would give
\* another, non-empty list for its query.
C7_ExpiredEntryPresent ==
    \E q \in Queries :
        /\ cache[q].present /\ cache[q].age >= 30 * 60
        /\ cache[q].result # <<>>
        /\ SearchIndex(q, 2, RZero)[1] # <<>>
        /\ SearchIndex(q, 2, RZero)[1] # cache[q].result

\* the position at which a document was inserted into the index
InsertedAt(id) ==
    CHOOSE i \in 1..Len(document_metadata) :
        /\ document_metadata[i].doc_id = id
        /\ \A j \in 1..(i - 1) : document_metadata[j].doc_id # id

\* C8: the list find_similar returns is in non-increasing similarity_score
\* order, and entries of equal score appear in the order in which their
\* documents were inserted into the index.
C8_SortedStable ==
    \A q \in Queries, top_k \in TopKs, threshold \in Thresholds :
        LET r == Returned(q, top_k, threshold)
            held == {document_metadata[i].doc_id : i \in 1..Len(document_metadata)}
        IN  \A i, j \in 1..Len(r) :
                i < j =>
                    /\ RLeq(r[j].similarity_score, r[i].similarity_score)
                    /\ (/\ r[i].similarity_score = r[j].similarity_score
                        /\ r[i].doc_id \in held /\ r[j].doc_id \in held)
                       => InsertedAt(r[i].doc_id) <= InsertedAt(r[j].doc_id)

\* save_index has written the index of this instance in full
SavedCopyIsCurrent ==
    disk = SaveIndex(SavesVector(svc, ai_available, index), index, document_metadata,
                     disk, "ok")

\* C9: save followed by load on a freshly constructed instance of the same
\* mode reproduces total_documents and the top-K result of every query.
C9_SaveLoadRoundTrip ==
    [][(Restart /\ SavedCopyIsCurrent /\ ai_available' = ai_available /\ hashOrder' = hashOrder)
       => /\ TotalDocumentsOf(svc', index', document_metadata') = TotalDocuments
          /\ \A q \in Queries, top_k \in TopKs, threshold \in Thresholds :
                 SearchAfter(q, top_k, threshold)[1] = SearchIndex(q, top_k, threshold)[1]]_vars

\* C10: a save that fails or is interrupted does not alter the on-disk copy:
\* after every step the artifacts are together the previous copy or the
\* complete new copy of the index.
C10_SaveIsAtomic ==
    [][\/ disk' = disk
       \/ disk' = SaveIndex(SavesVector(svc', ai_available', index'), index',
                            document_metadata', disk, "ok")]_vars

\* C11: a rebuild that follows a rebuild over the same stored rows leaves
\* total_documents as it was and find_similar returns for every query the
\* list it returned after the first rebuild.
C11_RebuildIdempotent ==
    [][(/\ ret.op = "rebuild" /\ ret.value = "int"
        /\ \E outcome \in SaveOutcomes : RebuildIndex(ret.rows[1], ret.rows[2], outcome))
       => /\ TotalDocumentsOf(svc', index', document_metadata') = TotalDocuments
          /\ \A q \in Queries, top_k \in TopKs, threshold \in Thresholds :
                 /\ SearchAfter(q, top_k, threshold)[1] = SearchIndex(q, top_k, threshold)[1]
                 /\ FindAfter(q, top_k, threshold).result = Returned(q, top_k, threshold)]_vars

\* C11 witness: a second rebuild over the same two stored rows has just run
\* and a query finds both documents.
C11_RebuiltTwice ==
    /\ ret.op = "rebuild" /\ ret.repeated
    /\ TotalDocuments = 2
    /\ \E q \in Queries : Len(SearchIndex(q, 2, RZero)[1]) = 2

\* C12: a rebuild returns an integer, the number of stored rows that were
\* inserted into the index (rows whose decoding or insertion failed are not
\* counted), so that it equals total_documents after the rebuild; this holds
\* for the rebuild the views invoke on their service.
C12_RebuildCountsInserted ==
    ret.op = "rebuild" => (ret.value = "int" /\ ret.count = TotalDocuments)

\* the artifacts the load of this mode reads are missing or do not parse
Unreadable(d, vector) == d.meta.kind # "ok" \/ (vector /\ d.faiss.kind # "ok")

\* C13: when the persisted artifacts are missing or cannot be parsed, the
\* load of a newly constructed instance leaves an empty index of the mode
\* that is available, as a first construction does, and find_similar on it
\* returns the empty list without an error.
C13_LoadFallsBackToEmpty ==
    [][(Restart /\ Unreadable(disk, svc = "full" \/ ai_available'))
       => /\ index' = IF svc = "full" \/ ai_available' THEN EmptyIndex ELSE NoIndex
          /\ document_metadata' = <<>>
          /\ \A q \in Queries, top_k \in TopKs, threshold \in Thresholds :
                 /\ FindAfter(q, top_k, threshold).result = <<>>
                 /\ FindAfter(q, top_k, threshold).source = "empty"]_vars

\* C13 witness: a load has met a metadata file that does not parse, written
\* by an add_document whose save failed, and has left an empty index.
C13_LoadedFromTornFile ==
    /\ ret.op = "load" /\ ret.value = "failed"
    /\ disk.meta.kind = "torn"
    /\ document_metadata = <<>>

\* C14: the score of a FeatureSet the extractor produced with itself is 1.0.
C14_SelfScoreIsOne ==
    (scoring.scores # <<>> /\ scoring.features1 = scoring.features2)
        => scoring.scores[1] = ROne

\* the dict-valued features both arguments of the scorer under test carry
MappingFeatures ==
    {f \in DictFeatures : f \in DOMAIN scoring.features1 /\ f \in DOMAIN scoring.features2}

\* C15: the score of any two FeatureSets lies in [0, 1], and so does the
\* similarity of each of their mapping-valued features whatever the order in
\* which the common keys are iterated.
C15_ScoreInUnitInterval ==
    /\ \A i \in 1..Len(scoring.scores) :
           RLeq(RZero, scoring.scores[i]) /\ RLeq(scoring.scores[i], ROne)
    /\ (scoring.scorer = "enhanced" /\ scoring.scores # <<>>) =>
           \A f \in MappingFeatures, ord \in HashOrders :
               LET d == CalculateFeatureSimilarity(scoring.features1[f],
                                                   scoring.features2[f], f, ord)
               IN  RLeq(RZero, d) /\ RLeq(d, ROne)

\* C16: score(a, b) = score(b, a), whatever the order in which each of the
\* two calls iterates the keys of the mapping-valued features.
C16_ScoreIsSymmetric ==
    Len(scoring.scores) = 2 => scoring.scores[1] = scoring.scores[2]

\* C17: when the save that add_document or a rebuild triggers fails, the
\* call does not raise and what it hands to its caller differs from what a
\* call whose save succeeded hands back.
C17_SaveFailureSurfaced ==
    [][\A outcome \in SaveOutcomes \ {"ok"} :
          /\ \A id \in DocIds, t \in Contents :
                 (AddSimple(id, t, outcome) \/ AddVector(id, t, outcome))
                 => (ret'.value \in {"True", "False"} /\ ret' # AddReturns)
          /\ \A docs \in StoredDocs :
                 RebuildIndex(docs, [i \in 1..Len(docs) |-> "added"], outcome)
                 => (ret'.value = "int"
                     /\ ret' # RebuildReturns(docs, [i \in 1..Len(docs) |-> "added"]))]_vars

\* C18: an instance of the lite class constructed without the vector backend
\* is in basic mode: it holds no vector index, every record add_document has
\* put into it carries the features of the basic extractor, every
\* find_similar is answered by the basic scorer, and no call has raised.
C18_BasicModeServes ==
    (svc = "lite" /\ ~ai_available) =>
        /\ index = NoIndex
        /\ \A i \in 1..Len(document_metadata) :
               document_metadata[i].features = LiteFeatures[document_metadata[i].content_preview]
        /\ \A q \in Queries, top_k \in TopKs, threshold \in Thresholds :
               SearchIndex(q, top_k, threshold) =
                   IF document_metadata = <<>> THEN << <<>>, "empty", FALSE >>
                   ELSE <<FindSimilarBasic(document_metadata, q, top_k, threshold),
                          "computed", TRUE>>
        /\ ret.value \in {"None", "True", "int", "created", "loaded", "failed"}

\* C18 witness: without the backend, add_document has added a document and
\* find_similar returns it.
C18_BasicModeInUse ==
    /\ svc = "lite" /\ ~ai_available
    /\ ret.op = "add"
    /\ \E q \in Queries : Returned(q, 1, RZero) # <<>>

\* the threads inside a call that writes or serialises the index (between
\* the key and the store or the store and the save_index of add_document,
\* inside a rebuild) and the
\* threads inside the scan of a find_similar
Writing(t) == threads[t].pc \in {"store", "save", "loop"}
Reading(t) == threads[t].pc = "scan"

\* C19: add_document, rebuild, save and load exclude each other and the scan
\* of find_similar: no two threads are inside their index-writing or
\* index-serialising steps at once, and no thread is inside them while
\* another is scanning the records.
C19_MutuallyExclusive ==
    \A t \in Threads, u \in Threads :
        t # u => ~(Writing(t) /\ (Writing(u) \/ Reading(u)))

\* C20: while a rebuild is under way or has been abandoned midway, and no
\* other call has written the index since it began, the index find_similar
\* sees is the complete index from before the rebuild or the complete
\* rebuilt one, never an empty or partly re-inserted one.
C20_RebuildNeverPartial ==
    \A t \in Threads :
        (threads[t].pc \in {"loop", "aborted"} /\ threads[t].alone)
        => <<index, document_metadata>> \in
               {threads[t].before,
                Rebuilt(FALSE, threads[t].before[1], threads[t].before[2],
                        threads[t].docs, threads[t].fate)}

\* C21: add_document triggers a save exactly when the number of insertions
\* since the last save reaches SavePeriod; stated for the first insertion a
\* newly constructed service takes: it runs save_index (the files change or
\* the save fails) if and only if SavePeriod is 1.
C21_SavesEveryNth ==
    [][(ret = Ret("init", "None", 0, <<>>, FALSE) /\ ret'.op = "add")
       => ((disk' # disk \/ faults' # faults) <=> SavePeriod = 1)]_vars

\* the backend that scores the queries of a service in a given state
QueryBackend(s, ai, ix) ==
    IF s = "simple" THEN (IF ai /\ ix.present THEN "interface" ELSE "enhanced")
    ELSE IF s = "full" \/ (ai /\ ix.present) THEN "vector" ELSE "basic"

\* C22: the backend that scores the queries changes only as part of a
\* rebuild or of a reload, never through add_document, find_similar, save or
\* a backend handle being attached.
C22_ModeChangesOnlyByRebuild ==
    [][QueryBackend(svc', ai_available', index') # QueryBackend(svc, ai_available, index)
       => (Rebuild \/ Restart)]_vars

\* C24: a row's is_indexed becomes true only in a step in which add_document
\* for it has returned True.
C24_IndexedOnlyAfterSuccess ==
    [][\A id \in DocIds :
          (id \notin is_indexed /\ id \in is_indexed') => ret' = AddReturns]_vars

\* whether the vector backend can be loaded in this state, where that is
\* known: it can when the service has loaded it or a download of the AI
\* environment has completed, it cannot when the service found none at its
\* construction and no download has been started since
BackendAvailable == ai_available \/ download_status.completed
BackendMissing == ~ai_available /\ download_status = NoDownload

C30_DownloadStatusTerminal ==
    \A t \in Threads :
        threads[t].pc = "downloaded"
        => /\ ~download_status.is_downloading
           /\ threads[t].value => (download_status.completed /\ download_status.error = "None")
           /\ ~threads[t].value => (~download_status.completed /\ download_status.error # "None")

\* C25: every entry of a list find_similar returns names a document the
\* index holds at the time of the call, and none carries an empty doc_id.
C25_ResultsNameIndexedDocs ==
    \A q \in Queries, top_k \in TopKs, threshold \in Thresholds :
        LET r == Returned(q, top_k, threshold)
        IN  \A i \in 1..Len(r) :
                /\ r[i].doc_id # ""
                /\ \E j \in 1..Len(document_metadata) :
                       document_metadata[j].doc_id = r[i].doc_id

\* C26: when each of two threads has made one call, an add_document that
\* returned True, and the two doc_ids differ, the index holds a record of its
\* own for each of the two documents.
C26_ConcurrentAddsBothPresent ==
    \A t \in Threads, u \in Threads :
        (/\ t # u
         /\ threads[t].pc = "idle" /\ threads[t].calls = 1
         /\ threads[u].pc = "idle" /\ threads[u].calls = 1
         /\ "added" \in DOMAIN threads[t] /\ "added" \in DOMAIN threads[u]
         /\ threads[t].added # threads[u].added)
        => \E i \in 1..Len(document_metadata), j \in 1..Len(document_metadata) :
               /\ i # j
               /\ document_metadata[i].doc_id = threads[t].added
               /\ document_metadata[j].doc_id = threads[u].added

\* C27: in vector mode the metadata map and the vector index describe the
\* same documents: there are as many records as vectors, and the record
\* under position i is that of the document whose vector is at position i.
C27_MetadataMatchesVectors ==
    UsesVector =>
        /\ Len(document_metadata) = Len(index.vectors)
        /\ \A i \in 1..Len(index.vectors) :
               /\ (i - 1) \in Keys(document_metadata)
               /\ Embed(DictGet(document_metadata, i - 1).content_preview) = index.vectors[i]

\* C28: a find_similar whose scan overlaps one add_document, and no rebuild,
\* returns what the scan of the index from just before the add or of the
\* index from just after it returns, never the empty list of a scan cut
\* short because the collection changed under it.
C28_FindDuringAddIsAtomic ==
    [][\A t \in Threads :
           (/\ threads[t].pc = "scan"
            /\ threads'[t].pc = "idle"
            /\ ~threads[t].detached
            /\ Len(document_metadata) = threads[t].size + 1)
           => LET thr == threads[t]
                  before == SubSeq(document_metadata, 1, thr.size)
                  Scan(md) == IF svc = "simple"
                              THEN FindSimilarEnhanced(md, thr.q, thr.top_k, thr.threshold, hashOrder)
                              ELSE FindSimilarBasic(md, thr.q, thr.top_k, thr.threshold)
              IN  threads'[t].found \in {Scan(before), Scan(document_metadata)}]_vars

====
